---- MODULE Spec2Model ----
(***************************************************************************)
(* Stateflare: a UV/PV visitor counter (Cloudflare Worker + D1).           *)
(*                                                                         *)
(* The model covers src/src/index.ts: getSiteOrigin, generateVisitorHash,  *)
(* trackVisitor and the POST /track route of fetch, over the two tables of *)
(* src/migrations/0001_init.sql.                                           *)
(*                                                                         *)
(* Strings are sequences of tokens.  A token is one character, except      *)
(* "https://h", which stands for a scheme and a host written out.          *)
(* Every D1 statement (prepare/bind/first|run) is one atomic step; the     *)
(* awaits between them are the points where concurrent requests interleave.*)
(* The timestamp columns (created_at, updated_at, first_visit, last_visit) *)
(* are left out: no statement reads them.                                  *)
(***************************************************************************)
EXTENDS Integers, Sequences, FiniteSets, TLC

VARIABLES
    visitors,     \* the visitors table: a set of rows
    site_stats,   \* the site_stats table: a set of rows
    calls,        \* one record per request: position in fetch/trackVisitor and locals
    normIn,       \* the referrer handed to getSiteOrigin (normalizer specification)
    normOut,      \* what getSiteOrigin returned for it
    hashIn,       \* the (ip, userAgent) pairs handed to generateVisitorHash
    hashOut       \* the hashes it returned for them

vars == <<visitors, site_stats, calls, normIn, normOut, hashIn, hashOut>>

----------------------------------------------------------------------------
(* Bounds *)

\* number of requests in one execution
MaxCalls == 3

\* number of tokens after the scheme+host token of a referrer
MaxTail == 4

\* number of requests between arrival and response at one time
MaxInFlight == 2

\* number of requests in one execution that draws from every route
MaxHttpCalls == 2
MaxHashLen == 2

Calls == 1..MaxCalls

----------------------------------------------------------------------------
(* Strings *)

\* null, undefined and '' are all falsy; the code only ever tests `!x`
Null == <<>>

SchemeHost == "https://h"

Delimiters == {"/", "?", "#"}

TailTokens == {"/", "y", "z", "?", "#"}

RECURSIVE SeqsUpTo(_, _)
SeqsUpTo(S, n) ==
    IF n = 0 THEN {<<>>}
    ELSE LET shorter == SeqsUpTo(S, n - 1)
         IN  shorter \cup {Append(s, t) : s \in {x \in shorter : Len(x) = n - 1}, t \in S}

\* index of the first token of s, at or after position i, that lies in D; Len(s)+1 if none
RECURSIVE FirstIn(_, _, _)
FirstIn(s, i, D) ==
    IF i > Len(s) THEN Len(s) + 1
    ELSE IF s[i] \in D THEN i
    ELSE FirstIn(s, i + 1, D)

----------------------------------------------------------------------------
(* new URL(referrer): origin and pathname *)

\* new URL(r) throws unless r is an absolute URL: it must start with a scheme and host
UrlParses(r) == Len(r) > 0 /\ r[1] = SchemeHost

\* url.origin: scheme://host, everything before the first of / ? #
UrlOrigin(r) == SubSeq(r, 1, FirstIn(r, 1, Delimiters) - 1)

\* url.pathname: from the first / up to the query or fragment; "/" when the path is empty
UrlPathname(r) ==
    LET from == FirstIn(r, 1, Delimiters)
        to   == FirstIn(r, 1, {"?", "#"})
        p    == SubSeq(r, from, to - 1)
    IN  IF p = <<>> THEN <<"/">> ELSE p

\* s.replace(/\/$/, ''): drops one trailing slash
StripTrailingSlash(s) ==
    IF Len(s) > 0 /\ s[Len(s)] = "/" THEN SubSeq(s, 1, Len(s) - 1) ELSE s

getSiteOrigin_Lenient(referrer) ==
    IF referrer = Null THEN Null
    ELSE IF ~UrlParses(referrer) THEN referrer
    ELSE StripTrailingSlash(UrlOrigin(referrer) \o UrlPathname(referrer))

getSiteOrigin(referrer) ==
    IF referrer = Null THEN Null
    ELSE IF ~UrlParses(referrer) THEN Null
    ELSE StripTrailingSlash(UrlOrigin(referrer) \o UrlPathname(referrer))

\* pathname.split('/').filter(seg => seg.length > 0), as the documented algorithm
\* and the tests' reference copy of getSiteOrigin compute it
RECURSIVE pathSegments(_)
pathSegments(p) ==
    IF p = <<>> THEN <<>>
    ELSE IF p[1] = "/" THEN pathSegments(Tail(p))
    ELSE LET end == FirstIn(p, 1, {"/"})
         IN  <<SubSeq(p, 1, end - 1)>> \o pathSegments(SubSeq(p, end, Len(p)))

----------------------------------------------------------------------------
(* generateVisitorHash *)

\* crypto.subtle.digest('SHA-256', .) rendered as hex: taken to be injective on its input
SHA256Hex(data) == <<"sha256">> \o data

generateVisitorHash(ip, userAgent) == SHA256Hex(ip \o <<":">> \o userAgent)

\* a || b on strings
OrElse_First(a, b) == a

OrElse(a, b) == IF a # Null THEN a ELSE b

Unknown == <<"u", "n", "k", "n", "o", "w", "n">>

----------------------------------------------------------------------------
(* The D1 tables (migrations/0001_init.sql) *)

SelectVisitors_AnySite(site, hash) == {r \in visitors : r.visitor_hash = hash}

\* SELECT * FROM visitors WHERE site_origin = ? AND visitor_hash = ?
SelectVisitors(site, hash) ==
    {r \in visitors : r.site_origin = site /\ r.visitor_hash = hash}

\* SELECT * FROM site_stats WHERE site_origin = ?
SelectSiteStats(site) == {r \in site_stats : r.site_origin = site}

\* id INTEGER PRIMARY KEY AUTOINCREMENT
NextVisitorId ==
    IF visitors = {} THEN 1
    ELSE (CHOOSE i \in {r.id : r \in visitors} : \A r \in visitors : r.id <= i) + 1

\* INSERT INTO visitors (site_origin, visitor_hash, visit_count) VALUES (?, ?, 1)
VisitorsAfterInsert(site, hash) ==
    visitors \cup {[id |-> NextVisitorId, site_origin |-> site,
                    visitor_hash |-> hash, visit_count |-> 1]}

VisitorsAfterUpdate_NoCount(site, hash) == visitors

VisitorsAfterUpdate_Decrement(site, hash) ==
    {IF r.site_origin = site /\ r.visitor_hash = hash
        THEN [r EXCEPT !.visit_count = @ - 1]
        ELSE r : r \in visitors}

\* UPDATE visitors SET visit_count = visit_count + 1 WHERE site_origin = ? AND visitor_hash = ?
VisitorsAfterUpdate(site, hash) ==
    {IF r.site_origin = site /\ r.visitor_hash = hash
        THEN [r EXCEPT !.visit_count = @ + 1]
        ELSE r : r \in visitors}

\* INSERT INTO site_stats (site_origin, uv, pv) VALUES (?, 1, 1)
SiteStatsAfterInsert(site) ==
    site_stats \cup {[site_origin |-> site, uv |-> 1, pv |-> 1]}

SiteStatsAfterUpdate_AlwaysUv(site, uvIncrement) ==
    {IF r.site_origin = site
        THEN [r EXCEPT !.uv = @ + 1, !.pv = @ + 1]
        ELSE r : r \in site_stats}

SiteStatsAfterUpdate_NoPv(site, uvIncrement) ==
    {IF r.site_origin = site
        THEN [r EXCEPT !.uv = @ + uvIncrement]
        ELSE r : r \in site_stats}

\* UPDATE site_stats SET uv = uv + ?, pv = pv + 1 WHERE site_origin = ?
SiteStatsAfterUpdate(site, uvIncrement) ==
    {IF r.site_origin = site
        THEN [r EXCEPT !.uv = @ + uvIncrement, !.pv = @ + 1]
        ELSE r : r \in site_stats}

----------------------------------------------------------------------------
(* Requests *)

\* the row of a first() that found one
TheRow(rows) == CHOOSE r \in rows : TRUE

\* a request: method, path, the site query parameter, headers and body.
\* json = FALSE is an absent or malformed body.
Request(method, path, site, cf, xff, ua, referer, referrerHdr, json, bodyReferrer) ==
    [method |-> method, path |-> path, site |-> site,
     cfConnectingIp |-> cf, xForwardedFor |-> xff, userAgent |-> ua,
     referer |-> referer, referrerHdr |-> referrerHdr,
     json |-> json, bodyReferrer |-> bodyReferrer]

NoRequest == Request("", "", Null, Null, Null, Null, Null, Null, FALSE, Null)

\* kind names the Response constructed: "json", "script", "text", "empty"
IdleCall ==
    [pc |-> "idle", request |-> NoRequest, siteOrigin |-> Null, visitorHash |-> Null,
     isNewVisitor |-> FALSE, siteStats |-> {},
     status |-> 0, kind |-> "", uv |-> 0, pv |-> 0, error |-> "", thrown |-> ""]

\* POST /track requests
TrackRequest(cf, xff, ua, referer, referrerHdr, json, bodyReferrer) ==
    Request("POST", "/track", Null, cf, xff, ua, referer, referrerHdr, json, bodyReferrer)

Blog     == <<SchemeHost, "/", "y">>
BlogPost == <<SchemeHost, "/", "y", "/", "z">>
BlogDir  == <<SchemeHost, "/", "y", "/">>

TrackRequests ==
    { TrackRequest(<<"1">>, Null, <<"m">>, Null, Null, TRUE, Blog),
      TrackRequest(<<"1">>, Null, <<"m">>, Null, Null, TRUE, BlogPost),
      TrackRequest(Null, Null, <<"m">>, Null, Null, TRUE, Blog),
      TrackRequest(<<"1">>, Null, <<"m">>, Null, Null, FALSE, Null),
      TrackRequest(<<"1">>, Null, <<"m">>, Null, Null, TRUE, <<"y">>) }

\* the response of request c; the locals of its trackVisitor call end with it
Respond(c, status, uv, pv, error, thrown) ==
    [calls EXCEPT ![c].pc = "responded", ![c].status = status, ![c].kind = "json",
                  ![c].uv = uv, ![c].pv = pv, ![c].error = error,
                  ![c].thrown = thrown,
                  ![c].isNewVisitor = FALSE, ![c].siteStats = {}]

\* the catch of trackVisitor rethrows, the catch of the /track route answers 500
Respond500_Rethrows(c, thrown) == Respond(c, 0, 0, 0, "", thrown)

Respond500(c, thrown) == Respond(c, 500, 0, 0, "Internal server error", thrown)

InFlight(c) == calls[c].pc \notin {"idle", "responded"}

\* requests are numbered in the order they arrive; at most MaxInFlight are served at once
Arrives(c) ==
    /\ calls[c].pc = "idle"
    /\ c > 1 => calls[c - 1].pc # "idle"
    /\ Cardinality({d \in Calls : InFlight(d)}) < MaxInFlight

----------------------------------------------------------------------------
(* fetch, POST /track: up to the call of trackVisitor *)

TrackStart_HeaderFirst(c, req) ==
    /\ Arrives(c)
    /\ LET ip        == OrElse(req.cfConnectingIp, OrElse(req.xForwardedFor, Unknown))
           userAgent == OrElse(req.userAgent, Unknown)
           header    == OrElse(req.referer, req.referrerHdr)
           referrer  == IF header # Null THEN header ELSE req.bodyReferrer
           siteOrigin == getSiteOrigin(referrer)
       IN  calls' =
             IF referrer = Null
                THEN [Respond(c, 400, 0, 0, "No referrer provided", "")
                         EXCEPT ![c].request = req]
             ELSE IF siteOrigin = Null
                THEN [Respond(c, 400, 0, 0, "Invalid referrer", "")
                         EXCEPT ![c].request = req]
             ELSE [calls EXCEPT ![c].pc = "selVisitor",
                                ![c].request = req,
                                ![c].siteOrigin = siteOrigin,
                                ![c].visitorHash = generateVisitorHash(ip, userAgent)]
    /\ UNCHANGED <<visitors, site_stats, normIn, normOut, hashIn, hashOut>>

TrackStart(c, req) ==
    /\ Arrives(c)
    /\ LET ip        == OrElse(req.cfConnectingIp, OrElse(req.xForwardedFor, Unknown))
           userAgent == OrElse(req.userAgent, Unknown)
           header    == OrElse(req.referer, req.referrerHdr)
           referrer  == IF req.json /\ req.bodyReferrer # Null
                           THEN req.bodyReferrer ELSE header
           siteOrigin == getSiteOrigin(referrer)
       IN  calls' =
             IF referrer = Null
                THEN [Respond(c, 400, 0, 0, "No referrer provided", "")
                         EXCEPT ![c].request = req]
             ELSE IF siteOrigin = Null
                THEN [Respond(c, 400, 0, 0, "Invalid referrer", "")
                         EXCEPT ![c].request = req]
             ELSE [calls EXCEPT ![c].pc = "selVisitor",
                                ![c].request = req,
                                ![c].siteOrigin = siteOrigin,
                                ![c].visitorHash = generateVisitorHash(ip, userAgent)]
    /\ UNCHANGED <<visitors, site_stats, normIn, normOut, hashIn, hashOut>>

----------------------------------------------------------------------------
(* trackVisitor, one action per D1 statement *)

SelectVisitor(c) ==
    /\ calls[c].pc = "selVisitor"
    /\ LET visitor == SelectVisitors(calls[c].siteOrigin, calls[c].visitorHash)
       IN  calls' = [calls EXCEPT ![c].pc =
                        IF visitor = {} THEN "insVisitor" ELSE "updVisitor"]
    /\ UNCHANGED <<visitors, site_stats, normIn, normOut, hashIn, hashOut>>

InsertVisitor_NoUnique(c) ==
    /\ calls[c].pc = "insVisitor"
    /\ visitors' = VisitorsAfterInsert(calls[c].siteOrigin, calls[c].visitorHash)
    /\ calls' = [calls EXCEPT ![c].pc = "selStats", ![c].isNewVisitor = TRUE]
    /\ UNCHANGED <<site_stats, normIn, normOut, hashIn, hashOut>>

\* UNIQUE(site_origin, visitor_hash): the insert of an existing pair throws
InsertVisitor(c) ==
    /\ calls[c].pc = "insVisitor"
    /\ IF SelectVisitors(calls[c].siteOrigin, calls[c].visitorHash) # {}
          THEN /\ calls' = Respond500(c, "UNIQUE constraint failed: visitors")
               /\ UNCHANGED visitors
          ELSE /\ visitors' = VisitorsAfterInsert(calls[c].siteOrigin, calls[c].visitorHash)
               /\ calls' = [calls EXCEPT ![c].pc = "selStats",
                                         ![c].isNewVisitor = TRUE]
    /\ UNCHANGED <<site_stats, normIn, normOut, hashIn, hashOut>>

UpdateVisitor(c) ==
    /\ calls[c].pc = "updVisitor"
    /\ visitors' = VisitorsAfterUpdate(calls[c].siteOrigin, calls[c].visitorHash)
    /\ calls' = [calls EXCEPT ![c].pc = "selStats"]
    /\ UNCHANGED <<site_stats, normIn, normOut, hashIn, hashOut>>

SelectStats(c) ==
    /\ calls[c].pc = "selStats"
    /\ LET siteStats == SelectSiteStats(calls[c].siteOrigin)
       IN  calls' = [calls EXCEPT ![c].siteStats = siteStats,
                                  ![c].pc = IF siteStats = {} THEN "insStats"
                                                              ELSE "updStats"]
    /\ UNCHANGED <<visitors, site_stats, normIn, normOut, hashIn, hashOut>>

InsertStats_ReturnsZero(c) ==
    /\ calls[c].pc = "insStats"
    /\ IF SelectSiteStats(calls[c].siteOrigin) # {}
          THEN /\ calls' = Respond500(c, "UNIQUE constraint failed: site_stats")
               /\ UNCHANGED site_stats
          ELSE /\ site_stats' = SiteStatsAfterInsert(calls[c].siteOrigin)
               /\ calls' = Respond(c, 200, 0, 0, "", "")
    /\ UNCHANGED <<visitors, normIn, normOut, hashIn, hashOut>>

\* site_origin TEXT PRIMARY KEY: the insert of an existing site throws
InsertStats(c) ==
    /\ calls[c].pc = "insStats"
    /\ IF SelectSiteStats(calls[c].siteOrigin) # {}
          THEN /\ calls' = Respond500(c, "UNIQUE constraint failed: site_stats")
               /\ UNCHANGED site_stats
          ELSE /\ site_stats' = SiteStatsAfterInsert(calls[c].siteOrigin)
               /\ calls' = Respond(c, 200, 1, 1, "", "")
    /\ UNCHANGED <<visitors, normIn, normOut, hashIn, hashOut>>

UpdateStats_ReturnsSnapshot(c) ==
    /\ calls[c].pc = "updStats"
    /\ LET uvIncrement == IF calls[c].isNewVisitor THEN 1 ELSE 0
           siteStats   == TheRow(calls[c].siteStats)
       IN  /\ site_stats' = SiteStatsAfterUpdate(calls[c].siteOrigin, uvIncrement)
           /\ calls' = Respond(c, 200, siteStats.uv, siteStats.pv, "", "")
    /\ UNCHANGED <<visitors, normIn, normOut, hashIn, hashOut>>

UpdateStats_ReadModifyWrite(c) ==
    /\ calls[c].pc = "updStats"
    /\ LET uvIncrement == IF calls[c].isNewVisitor THEN 1 ELSE 0
           siteStats   == TheRow(calls[c].siteStats)
       IN  /\ site_stats' = (site_stats \ SelectSiteStats(calls[c].siteOrigin))
                                \cup {[siteStats EXCEPT !.uv = @ + uvIncrement,
                                                        !.pv = @ + 1]}
           /\ calls' = Respond(c, 200, siteStats.uv + uvIncrement, siteStats.pv + 1, "", "")
    /\ UNCHANGED <<visitors, normIn, normOut, hashIn, hashOut>>

UpdateStats(c) ==
    /\ calls[c].pc = "updStats"
    /\ LET uvIncrement == IF calls[c].isNewVisitor THEN 1 ELSE 0
           siteStats   == TheRow(calls[c].siteStats)
       IN  /\ site_stats' = SiteStatsAfterUpdate(calls[c].siteOrigin, uvIncrement)
           /\ calls' = Respond(c, 200, siteStats.uv + uvIncrement, siteStats.pv + 1, "", "")
    /\ UNCHANGED <<visitors, normIn, normOut, hashIn, hashOut>>

StorageFailure_Retries(c) ==
    /\ InFlight(c)
    /\ calls' = [calls EXCEPT ![c].thrown = "D1_ERROR", ![c].pc = "selVisitor"]
    /\ UNCHANGED <<visitors, site_stats, normIn, normOut, hashIn, hashOut>>

\* any D1 statement may fail (network, quota): it throws and changes nothing
StorageFailure(c) ==
    /\ InFlight(c)
    /\ calls' = Respond500(c, "D1_ERROR")
    /\ UNCHANGED <<visitors, site_stats, normIn, normOut, hashIn, hashOut>>

----------------------------------------------------------------------------
(* fetch: routing, GET /stats and the routes that touch no storage *)

CorsHeaders ==
    { <<"Access-Control-Allow-Origin", "*">>,
      <<"Access-Control-Allow-Methods", "GET, POST, OPTIONS">>,
      <<"Access-Control-Allow-Headers", "Content-Type">> }

\* the headers of the Response of each kind
ResponseHeaders(kind) ==
    IF kind = "empty" THEN CorsHeaders
    ELSE IF kind = "script"
        THEN CorsHeaders \cup { <<"Content-Type", "application/javascript">>,
                                <<"Cache-Control", "public, max-age=3600">> }
    ELSE IF kind = "json" THEN CorsHeaders \cup {<<"Content-Type", "application/json">>}
    ELSE IF kind = "text" THEN CorsHeaders \cup {<<"Content-Type", "text/plain">>}
    ELSE {}

\* a Response built without a status (200) and without a storage access
RespondStatic(c, req, kind) ==
    /\ Arrives(c)
    /\ calls' = [calls EXCEPT ![c].pc = "responded", ![c].request = req,
                              ![c].status = 200, ![c].kind = kind]
    /\ UNCHANGED <<visitors, site_stats, normIn, normOut, hashIn, hashOut>>

\* GET /stats up to the call of getStats
StatsStart(c, req) ==
    /\ Arrives(c)
    /\ calls' =
          IF req.site = Null
             THEN [Respond(c, 400, 0, 0, "Site parameter required", "")
                      EXCEPT ![c].request = req]
             ELSE [calls EXCEPT ![c].pc = "getStats", ![c].request = req,
                                ![c].siteOrigin = req.site]
    /\ UNCHANGED <<visitors, site_stats, normIn, normOut, hashIn, hashOut>>

GetStats_NullIsError(c) ==
    /\ calls[c].pc = "getStats"
    /\ LET stats == SelectSiteStats(calls[c].siteOrigin)
       IN  calls' = IF stats = {}
                       THEN Respond500(c, "")
                       ELSE Respond(c, 200, TheRow(stats).uv, TheRow(stats).pv, "", "")
    /\ UNCHANGED <<visitors, site_stats, normIn, normOut, hashIn, hashOut>>

\* getStats: SELECT uv, pv FROM site_stats WHERE site_origin = ?; null becomes {0, 0}
GetStats(c) ==
    /\ calls[c].pc = "getStats"
    /\ LET stats == SelectSiteStats(calls[c].siteOrigin)
       IN  calls' = IF stats = {}
                       THEN Respond(c, 200, 0, 0, "", "")
                       ELSE Respond(c, 200, TheRow(stats).uv, TheRow(stats).pv, "", "")
    /\ UNCHANGED <<visitors, site_stats, normIn, normOut, hashIn, hashOut>>

Fetch_AnyMethod(c, req) ==
    IF req.method = "OPTIONS" THEN RespondStatic(c, req, "empty")
    ELSE IF req.path = "/track.js" THEN RespondStatic(c, req, "script")
    ELSE IF req.path = "/track" THEN TrackStart(c, req)
    ELSE IF req.path = "/stats" /\ req.method = "GET" THEN StatsStart(c, req)
    ELSE RespondStatic(c, req, "text")

Fetch(c, req) ==
    IF req.method = "OPTIONS" THEN RespondStatic(c, req, "empty")
    ELSE IF req.path = "/track.js" THEN RespondStatic(c, req, "script")
    ELSE IF req.path = "/track" /\ req.method = "POST" THEN TrackStart(c, req)
    ELSE IF req.path = "/stats" /\ req.method = "GET" THEN StatsStart(c, req)
    ELSE RespondStatic(c, req, "text")

Unseen == <<SchemeHost>>

HttpRequests ==
    { TrackRequest(Null, Null, Null, Null, Null, TRUE, Blog),
      TrackRequest(Null, Null, <<"m">>, Null, Null, TRUE, Blog),
      TrackRequest(<<"1">>, Null, Null, Null, Null, TRUE, Blog),
      TrackRequest(<<"1">>, Null, <<"m">>, Blog, Null, TRUE, BlogPost),
      TrackRequest(Null, <<"1">>, <<"m">>, BlogDir, Null, FALSE, Null),
      TrackRequest(<<"1">>, Null, <<"m">>, Null, BlogPost, TRUE, Null),
      TrackRequest(<<"1">>, Null, <<"m">>, Null, Null, FALSE, Null),
      TrackRequest(<<"1">>, Null, <<"m">>, Null, Null, TRUE, <<"y">>),
      TrackRequest(<<"1">>, Null, <<"m">>, <<"y">>, Blog, FALSE, Null),
      Request("GET", "/stats", Blog, <<"1">>, Null, <<"m">>, Null, Null, FALSE, Null),
      Request("GET", "/stats", Unseen, <<"1">>, Null, <<"m">>, Null, Null, FALSE, Null),
      Request("GET", "/stats", Null, <<"1">>, Null, <<"m">>, Null, Null, FALSE, Null),
      Request("GET", "/track.js", Null, <<"1">>, Null, <<"m">>, Null, Null, FALSE, Null),
      Request("OPTIONS", "/track", Null, <<"1">>, Null, <<"m">>, Null, Null, FALSE, Null),
      Request("GET", "/track", Null, <<"1">>, Null, <<"m">>, Blog, Null, FALSE, Null),
      Request("GET", "/", Null, <<"1">>, Null, <<"m">>, Null, Null, FALSE, Null) }

----------------------------------------------------------------------------
(* Specifications *)

Init ==
    /\ visitors = {}
    /\ site_stats = {}
    /\ calls = [c \in Calls |-> IdleCall]
    /\ normIn = Null
    /\ normOut = Null
    /\ hashIn = <<>>
    /\ hashOut = <<>>

Statement(c) ==
    \/ SelectVisitor(c)
    \/ InsertVisitor(c)
    \/ UpdateVisitor(c)
    \/ SelectStats(c)
    \/ InsertStats(c)
    \/ UpdateStats(c)

\* concurrent requests, failing storage
Next ==
    \/ \E c \in Calls, req \in TrackRequests : TrackStart(c, req)
    \/ \E c \in Calls : SelectVisitor(c)
    \/ \E c \in Calls : InsertVisitor(c)
    \/ \E c \in Calls : UpdateVisitor(c)
    \/ \E c \in Calls : SelectStats(c)
    \/ \E c \in Calls : InsertStats(c)
    \/ \E c \in Calls : UpdateStats(c)
    \/ \E c \in Calls : StorageFailure(c)

Spec == Init /\ [][Next]_vars

\* concurrent requests, storage that never fails by itself
NextConc ==
    \/ \E c \in Calls, req \in TrackRequests : TrackStart(c, req)
    \/ \E c \in Calls : Statement(c)

SpecConc == Init /\ [][NextConc]_vars

\* non-overlapping requests, storage that never fails by itself
TrackStartSeq(c, req) ==
    /\ \A d \in Calls : ~InFlight(d)
    /\ TrackStart(c, req)

NextSeq ==
    \/ \E c \in Calls, req \in TrackRequests : TrackStartSeq(c, req)
    \/ \E c \in Calls : Statement(c)

SpecSeq == Init /\ [][NextSeq]_vars

\* every route, one request at a time, failing storage
FetchSeq(c, req) ==
    /\ c <= MaxHttpCalls
    /\ \A d \in Calls : ~InFlight(d)
    /\ Fetch(c, req)

NextHttp ==
    \/ \E c \in Calls, req \in HttpRequests : FetchSeq(c, req)
    \/ \E c \in Calls : Statement(c)
    \/ \E c \in Calls : GetStats(c)
    \/ \E c \in Calls : StorageFailure(c)

SpecHttp == Init /\ [][NextHttp]_vars

----------------------------------------------------------------------------
(* The normalizer alone: getSiteOrigin applied to one referrer *)

Referrers ==
    {<<SchemeHost>> \o t : t \in SeqsUpTo(TailTokens, MaxTail)}
        \cup SeqsUpTo(TailTokens, 2)

InitNorm ==
    /\ visitors = {}
    /\ site_stats = {}
    /\ calls = [c \in Calls |-> IdleCall]
    /\ normIn \in Referrers
    /\ normOut = <<>>
    /\ hashIn = <<>>
    /\ hashOut = <<>>

Normalize ==
    /\ normOut = <<>>
    /\ normOut' = <<getSiteOrigin(normIn)>>
    /\ UNCHANGED <<visitors, site_stats, calls, normIn, hashIn, hashOut>>

NextNorm == Normalize

SpecNorm == InitNorm /\ [][NextNorm]_vars

----------------------------------------------------------------------------
(* The identifier alone: generateVisitorHash applied to two visitors *)

\* characters of an address or an agent: one ordinary, and the ":" of IPv6
\* addresses and of agents such as "rv:109.0"
HashChars == {"1", ":"}

\* ip and userAgent are never empty in fetch: a missing header becomes "unknown"
HashStrings == {s \in SeqsUpTo(HashChars, MaxHashLen) : s # Null}

Visitors == [ip : HashStrings, userAgent : HashStrings]

InitHash ==
    /\ visitors = {}
    /\ site_stats = {}
    /\ calls = [c \in Calls |-> IdleCall]
    /\ normIn = Null
    /\ normOut = Null
    /\ hashIn \in Visitors \X Visitors
    /\ hashOut = <<>>

Identify ==
    /\ hashOut = <<>>
    /\ hashOut' = <<generateVisitorHash(hashIn[1].ip, hashIn[1].userAgent),
                    generateVisitorHash(hashIn[2].ip, hashIn[2].userAgent)>>
    /\ UNCHANGED <<visitors, site_stats, calls, normIn, normOut, hashIn>>

NextHash == Identify

SpecHash == InitHash /\ [][NextHash]_vars

----------------------------------------------------------------------------
(* Vocabulary of the properties *)

\* no request is between its arrival and its response
Quiescent == \A c \in Calls : ~InFlight(c)

\* the request reached trackVisitor
Tracked(c) == calls[c].pc # "idle" /\ calls[c].siteOrigin # Null

Succeeded(c) == calls[c].pc = "responded" /\ calls[c].status = 200

SucceededTo(site) == {c \in Calls : Succeeded(c) /\ calls[c].siteOrigin = site}

SitesTracked == {calls[c].siteOrigin : c \in {d \in Calls : Tracked(d)}}

SitesStored ==
    {r.site_origin : r \in visitors} \cup {r.site_origin : r \in site_stats}

VisitorsOf(site) == {r \in visitors : r.site_origin = site}

RECURSIVE SumVisitCount(_)
SumVisitCount(rows) ==
    IF rows = {} THEN 0
    ELSE LET r == CHOOSE x \in rows : TRUE
         IN  r.visit_count + SumVisitCount(rows \ {r})

\* the site has exactly one site_stats row, and it reads (uv, pv)
Stored(site, uv, pv) ==
    /\ Cardinality(SelectSiteStats(site)) = 1
    /\ \A r \in SelectSiteStats(site) : r.uv = uv /\ r.pv = pv

----------------------------------------------------------------------------
(* C1..C10 *)

\* C1 (SpecSeq). Counting law: from the empty store, once N non-overlapping
\* successful trackVisitor calls with K distinct visitor hashes have been made to
\* a site, its site_stats row has pv = N and uv = K.
C1_CountingLaw ==
    Quiescent =>
        \A site \in SitesTracked :
            Stored(site,
                   Cardinality({calls[c].visitorHash : c \in SucceededTo(site)}),
                   Cardinality(SucceededTo(site)))

\* three calls to one site with two distinct hashes have completed
C1_Witness ==
    /\ Quiescent
    /\ \E site \in SitesTracked :
          /\ Cardinality(SucceededTo(site)) = 3
          /\ Cardinality({calls[c].visitorHash : c \in SucceededTo(site)}) = 2

\* C2 (SpecSeq). Store consistency: between non-overlapping calls, with no storage
\* failure, every site's uv is the number of its visitor rows and its pv is the
\* sum of their visit_count.
C2_StoreConsistency ==
    Quiescent =>
        \A site \in SitesStored :
            Stored(site, Cardinality(VisitorsOf(site)), SumVisitCount(VisitorsOf(site)))

\* a site with two visitor rows, one of which has come back
C2_Witness ==
    /\ Quiescent
    /\ \E site \in SitesStored :
          /\ Cardinality(VisitorsOf(site)) = 2
          /\ SumVisitCount(VisitorsOf(site)) = 3

\* C3 (SpecConc). M concurrent calls with one visitor hash to one site, on a
\* store with no row for it, leave uv = 1 and pv = M.
C3_SameVisitorConcurrent ==
    LET T == {c \in Calls : Tracked(c)}
    IN  ( /\ Quiescent
          /\ T # {}
          /\ \A c, d \in T : /\ calls[c].siteOrigin = calls[d].siteOrigin
                             /\ calls[c].visitorHash = calls[d].visitorHash )
        => \A c \in T : Stored(calls[c].siteOrigin, 1, Cardinality(T))

\* C4 (SpecConc). The duplicate-key race is absorbed: a call whose insert into
\* visitors loses against a concurrent insert of the same (site, hash) goes on as
\* an existing visitor and never answers with an error.
C4_DuplicateKeyAbsorbed ==
    \A c \in Calls :
        ~(calls[c].status = 500 /\ calls[c].thrown = "UNIQUE constraint failed: visitors")

\* C5 (SpecConc). The (uv, pv) a successful call returns is the site's stored
\* (uv, pv) right after that call's own write to site_stats.
C5_ReturnsPostUpdate ==
    [][\A c \in Calls :
          (calls[c].pc \in {"insStats", "updStats"} /\ calls'[c].status = 200)
              => \E r \in site_stats' : /\ r.site_origin = calls[c].siteOrigin
                                        /\ r.uv = calls'[c].uv
                                        /\ r.pv = calls'[c].pv]_vars

\* C6 (SpecSeq). Sequential return values: the i-th non-overlapping call to a site
\* returns pv = i and uv = the number of distinct hashes among the first i calls.
C6_SequentialReturns ==
    \A c \in Calls :
        Succeeded(c) =>
            LET first == {d \in 1..c : Tracked(d) /\ calls[d].siteOrigin = calls[c].siteOrigin}
            IN  /\ calls[c].pv = Cardinality(first)
                /\ calls[c].uv = Cardinality({calls[d].visitorHash : d \in first})

\* hashA, hashA, hashB to one site returned {1,1}, {1,2}, {2,3}
C6_Witness ==
    /\ \A c \in 1..3 : Succeeded(c) /\ calls[c].siteOrigin = calls[1].siteOrigin
    /\ calls[1].visitorHash = calls[2].visitorHash
    /\ calls[3].visitorHash # calls[1].visitorHash
    /\ <<calls[1].uv, calls[1].pv>> = <<1, 1>>
    /\ <<calls[2].uv, calls[2].pv>> = <<1, 2>>
    /\ <<calls[3].uv, calls[3].pv>> = <<2, 3>>

\* C7 (Spec). Every site_stats row has pv >= uv >= 0, in every state: between the
\* statements of interleaved calls and after calls that failed on storage.
C7_PvAtLeastUv == \A r \in site_stats : r.pv >= r.uv /\ r.uv >= 0

\* a row updated past its creation, and a call that failed on storage after its
\* visitor row was written
C7_Witness ==
    /\ \E r \in site_stats : r.pv > r.uv /\ r.uv >= 1
    /\ \E c \in Calls : /\ calls[c].thrown = "D1_ERROR"
                         /\ SelectVisitors(calls[c].siteOrigin, calls[c].visitorHash) # {}

\* C8 (Spec). No step deletes a site_stats or visitors row or lowers uv, pv or
\* visit_count.
C8_Monotonic ==
    [][/\ \A r \in site_stats :
             \E n \in site_stats' : /\ n.site_origin = r.site_origin
                                    /\ n.uv >= r.uv
                                    /\ n.pv >= r.pv
       /\ \A r \in visitors :
             \E n \in visitors' : /\ n.id = r.id
                                  /\ n.site_origin = r.site_origin
                                  /\ n.visitor_hash = r.visitor_hash
                                  /\ n.visit_count >= r.visit_count]_vars

\* rows that have been updated after their creation
C8_Witness ==
    /\ \E r \in visitors : r.visit_count >= 2
    /\ \E r \in site_stats : r.pv >= 3 /\ r.uv >= 2

\* C9 (SpecNorm). Segment collapsing: a referrer with at least one non-empty path
\* segment normalizes to origin/<firstSegment>.
C9_SegmentCollapsing ==
    ( /\ normOut # <<>>
      /\ UrlParses(normIn)
      /\ pathSegments(UrlPathname(normIn)) # <<>> )
    => normOut[1] = UrlOrigin(normIn) \o <<"/">> \o pathSegments(UrlPathname(normIn))[1]

\* C10 (SpecNorm). Root case: a referrer with no non-empty path segment
\* normalizes to the bare origin, without a trailing slash.
C10_RootCase ==
    ( /\ normOut # <<>>
      /\ UrlParses(normIn)
      /\ pathSegments(UrlPathname(normIn)) = <<>> )
    => normOut[1] = UrlOrigin(normIn)

----------------------------------------------------------------------------
(* C11..C20 *)

\* the referrer with a slash added at the end of its path
WithTrailingSlash(r) ==
    LET q == FirstIn(r, 1, {"?", "#"})
    IN  SubSeq(r, 1, q - 1) \o <<"/">> \o SubSeq(r, q, Len(r))

\* the referrer without its query string and fragment
WithoutQueryFragment(r) == SubSeq(r, 1, FirstIn(r, 1, {"?", "#"}) - 1)

\* C11 (SpecNorm). A referrer, the same referrer with a trailing slash added and the
\* same referrer without its query string and fragment normalize to one site origin.
C11_SlashQueryFragment ==
    (normOut # <<>> /\ UrlParses(normIn))
    => /\ normOut[1] = getSiteOrigin(WithTrailingSlash(normIn))
       /\ normOut[1] = getSiteOrigin(WithoutQueryFragment(normIn))

\* the request is for the tracking route
IsTrack(req) == req.method = "POST" /\ req.path = "/track"

\* the referrer of a tracking request: the body's, else the Referer header, else Referrer
RequestReferrer(req) ==
    IF req.json /\ req.bodyReferrer # Null THEN req.bodyReferrer
    ELSE IF req.referer # Null THEN req.referer
    ELSE req.referrerHdr

InvalidReferrer(req) == RequestReferrer(req) = Null \/ ~UrlParses(RequestReferrer(req))

\* request c is received in this step
Received(c) == calls[c].pc = "idle" /\ calls'[c].pc # "idle"

\* C12 (SpecHttp). A POST /track whose referrer is missing, empty or no absolute URL
\* is answered 400 with an error body in the step that receives it, before any
\* statement is sent to storage; both tables stay as they are.
C12_InvalidReferrerFailsFast ==
    [][\A c \in Calls :
          ( /\ Received(c)
            /\ IsTrack(calls'[c].request)
            /\ InvalidReferrer(calls'[c].request) )
          => /\ calls'[c].pc = "responded"
             /\ calls'[c].status = 400
             /\ calls'[c].kind = "json"
             /\ calls'[c].error # ""
             /\ visitors' = visitors
             /\ site_stats' = site_stats]_vars

\* an unparseable referrer rejected while the tables hold rows
C12_Witness ==
    /\ site_stats # {}
    /\ visitors # {}
    /\ \E c \in Calls :
          /\ IsTrack(calls[c].request)
          /\ RequestReferrer(calls[c].request) # Null
          /\ InvalidReferrer(calls[c].request)
          /\ calls[c].status = 400


\* C13 (Spec). A statement that fails ends its call: the failing step writes
\* nothing, the request is answered 500 with an error body and no counts, and the
\* call takes no further step (no later statement, no retry).
C13_FailurePropagated ==
    [][\A c \in Calls :
          /\ (calls[c].thrown = "" /\ calls'[c].thrown # "")
             => /\ calls'[c].pc = "responded"
                /\ calls'[c].status = 500
                /\ calls'[c].error = "Internal server error"
                /\ calls'[c].uv = 0 /\ calls'[c].pv = 0
                /\ visitors' = visitors
                /\ site_stats' = site_stats
          /\ calls[c].pc = "responded" => calls'[c] = calls[c]]_vars

\* a call that failed after writing its visitor row and before any site_stats row
C13_Witness ==
    \E c \in Calls :
        /\ calls[c].thrown = "D1_ERROR"
        /\ calls[c].status = 500
        /\ SelectVisitors(calls[c].siteOrigin, calls[c].visitorHash) # {}
        /\ SelectSiteStats(calls[c].siteOrigin) = {}


IsStats(req) == req.method = "GET" /\ req.path = "/stats"

\* C14 (SpecHttp). The step in which a GET /stats request reads the table
\* answers 200: with uv = 0 and pv = 0 when site_stats holds no row of the
\* requested site, and with exactly the stored uv and pv when it holds one.
C14_StatsZeroOrStored ==
    [][\A c \in Calls :
          (/\ IsStats(calls[c].request)
           /\ calls[c].pc = "getStats"
           /\ calls'[c].pc = "responded"
           /\ calls'[c].thrown = "")
          => /\ calls'[c].status = 200
             /\ calls'[c].error = ""
             /\ IF \A r \in site_stats : r.site_origin # calls[c].request.site
                   THEN calls'[c].uv = 0 /\ calls'[c].pv = 0
                   ELSE \E r \in site_stats :
                           /\ r.site_origin = calls[c].request.site
                           /\ calls'[c].uv = r.uv
                           /\ calls'[c].pv = r.pv]_vars

\* the zero result for a site never observed, while another site is stored
C14_Witness ==
    /\ site_stats # {}
    /\ \E c \in Calls :
          /\ IsStats(calls[c].request)
          /\ calls[c].status = 200
          /\ calls[c].uv = 0 /\ calls[c].pv = 0
          /\ \A r \in site_stats : r.site_origin # calls[c].request.site


\* C15 (Spec). Every step of a call for site A, successful or failing, leaves
\* the site_stats row and the visitor rows of every other site as they were; and
\* the lookup that decides whether the visitor is new to A finds only a row of
\* A, so a hash already recorded for another site is still new to A.
C15_CrossSiteIndependence ==
    [][\A c \in Calls :
          calls'[c] # calls[c]
          => LET A == calls'[c].siteOrigin
                 h == calls'[c].visitorHash
             IN  /\ {r \in site_stats' : r.site_origin # A}
                       = {r \in site_stats : r.site_origin # A}
                 /\ {r \in visitors' : r.site_origin # A}
                       = {r \in visitors : r.site_origin # A}
                 /\ calls[c].pc = "selVisitor" /\ calls'[c].thrown = ""
                    => (calls'[c].pc = "insVisitor"
                          <=> \A r \in visitors :
                                 ~(r.site_origin = A /\ r.visitor_hash = h))]_vars

\* one hash recorded and counted for two sites, and a failed call for one of them
C15_Witness ==
    \E r1, r2 \in visitors :
        /\ r1.visitor_hash = r2.visitor_hash
        /\ r1.site_origin # r2.site_origin
        /\ \E s1, s2 \in site_stats :
              /\ s1.site_origin = r1.site_origin /\ s1.uv = 1
              /\ s2.site_origin = r2.site_origin /\ s2.uv = 1
        /\ \E c \in Calls : calls[c].thrown # "" /\ calls[c].siteOrigin = r1.site_origin


\* C16 (Spec). In every reachable state, under every interleaving, visitors
\* holds at most one row for each (site_origin, visitor_hash) pair and
\* site_stats holds at most one row for each site_origin.
C16_UniqueRows ==
    /\ \A r1, r2 \in visitors :
          (r1.site_origin = r2.site_origin /\ r1.visitor_hash = r2.visitor_hash)
          => r1 = r2
    /\ \A s1, s2 \in site_stats : s1.site_origin = s2.site_origin => s1 = s2

\* both constraints have rejected a concurrent second insert
C16_Witness ==
    /\ \E c \in Calls : calls[c].thrown = "UNIQUE constraint failed: visitors"
    /\ \E c \in Calls : calls[c].thrown = "UNIQUE constraint failed: site_stats"


NoClientAddress(req) == req.cfConnectingIp = Null /\ req.xForwardedFor = Null

Anonymous(req) == NoClientAddress(req) \/ req.userAgent = Null

SameClient(q1, q2) ==
    /\ q1.cfConnectingIp = q2.cfConnectingIp
    /\ q1.xForwardedFor = q2.xForwardedFor
    /\ q1.userAgent = q2.userAgent

TrackedTo(site) ==
    {c \in Calls : /\ IsTrack(calls[c].request)
                   /\ calls[c].pc # "idle"
                   /\ calls[c].siteOrigin = site}

\* C17 (SpecHttp). A POST /track with a valid referrer and no client address
\* header and/or no User-Agent header is never answered 400; its visitor hash is
\* the hash of the values with "unknown" in place of each missing one; and a
\* site visited only by such requests from one client has uv at most 1 and pv
\* equal to the number of visits answered 200.
C17_UnknownClient ==
    LET unknown == <<"u", "n", "k", "n", "o", "w", "n">>
        ipOf(q) == IF q.cfConnectingIp # <<>> THEN q.cfConnectingIp
                   ELSE IF q.xForwardedFor # <<>> THEN q.xForwardedFor
                   ELSE unknown
        uaOf(q) == IF q.userAgent # <<>> THEN q.userAgent ELSE unknown
    IN  /\ \A c \in Calls :
              LET q == calls[c].request
              IN  (IsTrack(q) /\ Anonymous(q) /\ ~InvalidReferrer(q))
                  => /\ calls[c].status # 400
                     /\ calls[c].visitorHash
                           = <<"sha256">> \o ipOf(q) \o <<":">> \o uaOf(q)
        /\ \A c \in Calls :
              LET A == calls[c].siteOrigin
                  T == TrackedTo(A)
              IN  (/\ c \in T
                   /\ \A d \in T : /\ Anonymous(calls[d].request)
                                   /\ SameClient(calls[d].request, calls[c].request))
                  => /\ \A r \in site_stats : r.site_origin = A => r.uv <= 1
                     /\ LET n == Cardinality({d \in T : calls[d].status = 200})
                        IN  IF n = 0
                               THEN \A r \in site_stats : r.site_origin # A
                               ELSE \E r \in site_stats :
                                       r.site_origin = A /\ r.uv = 1 /\ r.pv = n

\* two visits with neither address nor agent, counted as one visitor
C17_Witness ==
    /\ \E r \in site_stats : r.uv = 1 /\ r.pv = 2
    /\ \A c \in 1..2 :
          /\ IsTrack(calls[c].request)
          /\ NoClientAddress(calls[c].request)
          /\ calls[c].request.userAgent = Null
          /\ calls[c].status = 200


\* C18 (SpecHash). Two visitors get the same visitor hash exactly when they
\* have the same client address and the same user agent: distinct
\* (ip, userAgent) pairs give distinct hashes, equal pairs give equal hashes.
C18_HashInjective ==
    hashOut # <<>> => (hashOut[1] = hashOut[2] <=> hashIn[1] = hashIn[2])


\* C19 (SpecHttp). Every response to GET /track.js has status 200 and carries
\* Cross-Origin-Resource-Policy: cross-origin, Access-Control-Allow-Origin: *
\* and Content-Type: application/javascript.
C19_ScriptHeaders ==
    \A c \in Calls :
        (/\ calls[c].pc = "responded"
         /\ calls[c].request.method = "GET"
         /\ calls[c].request.path = "/track.js")
        => /\ calls[c].status = 200
           /\ <<"Cross-Origin-Resource-Policy", "cross-origin">>
                 \in ResponseHeaders(calls[c].kind)
           /\ <<"Access-Control-Allow-Origin", "*">> \in ResponseHeaders(calls[c].kind)
           /\ <<"Content-Type", "application/javascript">>
                 \in ResponseHeaders(calls[c].kind)


Structured(call) ==
    /\ call.kind = "json"
    /\ \/ call.status = 200 /\ call.error = "" /\ call.thrown = ""
       \/ call.status = 400 /\ call.error # "" /\ call.thrown = ""
       \/ call.status = 500 /\ call.error # ""

\* C20 (SpecHttp). A POST /track or GET /stats request being handled can always
\* take its next step, and it ends in one response that never changes
\* afterwards: a JSON body with 200 and the counts, 400 and an error, or 500 and
\* an error; a storage exception always ends in the 500 response.
C20_StructuredResponse ==
    /\ [](\A c \in Calls : InFlight(c) => ENABLED (Statement(c) \/ GetStats(c)))
    /\ [][\A c \in Calls :
             /\ (/\ calls'[c].pc = "responded"
                 /\ IsTrack(calls'[c].request) \/ IsStats(calls'[c].request))
                => Structured(calls'[c])
             /\ calls[c].pc = "responded" => calls'[c] = calls[c]]_vars

\* a storage exception answered 500 on both routes
C20_Witness ==
    /\ \E c \in Calls : /\ IsTrack(calls[c].request)
                        /\ calls[c].thrown # ""
                        /\ calls[c].status = 500
    /\ \E c \in Calls : /\ IsStats(calls[c].request)
                        /\ calls[c].thrown # ""
                        /\ calls[c].status = 500

----------------------------------------------------------------------------
(* C21..C30 *)

\* C21 (Spec). The create branch of site_stats is entered only with
\* isNewVisitor = TRUE: a call that found no site_stats row of its site, and is
\* about to insert one with uv = 1, has itself just inserted its visitor row.
C21_CreateOnlyNew ==
    \A c \in Calls : calls[c].pc = "insStats" => calls[c].isNewVisitor

\* C22 (SpecConc). No increment on an existing site_stats row is lost: under
\* every interleaving the stored pv of a site is the number of its calls answered
\* 200, and the call that updates the row adds exactly 1 to the pv stored at
\* that moment and 1 or 0 to the uv according to whether it inserted its visitor
\* row. A call is rejected only when it inserts a visitor row for a hash that
\* another call of the same site uses too, or when it found no site_stats row.
C22_NoLostIncrement ==
    /\ [](\A site \in SitesTracked \cup SitesStored :
             IF SelectSiteStats(site) = {}
                THEN SucceededTo(site) = {}
                ELSE \A r \in SelectSiteStats(site) :
                        r.pv = Cardinality(SucceededTo(site)))
    /\ [][\A c \in Calls :
             /\ (calls[c].pc = "updStats" /\ calls'[c].pc = "responded")
                => /\ calls'[c].status = 200
                   /\ \E r \in site_stats, r2 \in site_stats' :
                         /\ r.site_origin = calls[c].siteOrigin
                         /\ r2.site_origin = calls[c].siteOrigin
                         /\ r2.pv = r.pv + 1
                         /\ r2.uv = r.uv + (IF calls[c].isNewVisitor THEN 1 ELSE 0)
             /\ (calls[c].thrown = "" /\ calls'[c].thrown # "")
                => \/ /\ calls[c].pc = "insVisitor"
                      /\ \E d \in Calls \ {c} :
                            /\ calls[d].pc # "idle"
                            /\ calls[d].siteOrigin = calls[c].siteOrigin
                            /\ calls[d].visitorHash = calls[c].visitorHash
                   \/ calls[c].pc = "insStats"]_vars

\* two calls that overlapped on the existing row: both read pv = 1, and the row
\* holds pv = 3
C22_Witness ==
    \E c, d \in Calls :
        /\ c # d
        /\ Succeeded(c) /\ Succeeded(d)
        /\ calls[c].siteOrigin = calls[d].siteOrigin
        /\ calls[c].pv = 2 /\ calls[d].pv = 2
        /\ \E r \in SelectSiteStats(calls[c].siteOrigin) : r.pv = 3

\* C23 (SpecConc). Calls with pairwise distinct visitor hashes to a site that
\* had no site_stats row: once all M have responded, none was rejected and the
\* row holds uv = M and pv = M.
C23_CreationRace ==
    \A site \in SitesTracked :
        LET T == {c \in Calls : Tracked(c) /\ calls[c].siteOrigin = site}
        IN  (/\ \A c \in T : calls[c].pc = "responded"
             /\ \A c, d \in T : c # d => calls[c].visitorHash # calls[d].visitorHash)
            => /\ \A c \in T : calls[c].status = 200
               /\ Stored(site, Cardinality(T), Cardinality(T))

PvStored(site) ==
    IF SelectSiteStats(site) = {} THEN 0 ELSE TheRow(SelectSiteStats(site)).pv

\* C24 (Spec). A call that ends in an error leaves both tables as they were
\* before it: whenever no call is being handled, every visit recorded in a
\* site's visitor rows is matched by the site_stats update of the same call, so
\* the visit_count of the site's visitor rows adds up to its stored pv.
C24_FailureAtomicity ==
    Quiescent =>
        \A site \in SitesStored : SumVisitCount(VisitorsOf(site)) = PvStored(site)

SucceededWith(site, hash) ==
    {c \in Calls : /\ IsTrack(calls[c].request)
                   /\ Succeeded(c)
                   /\ calls[c].siteOrigin = site
                   /\ calls[c].visitorHash = hash}

\* C25 (SpecHttp). The visitor write of a call for (site, h) changes only the
\* row keyed (site, h): it creates it with visit_count = 1 when absent and adds
\* exactly 1 to its visit_count otherwise; and between non-overlapping calls the
\* visit_count of every row is the number of calls answered 200 for its key.
C25_VisitorRecordEffect ==
    /\ [][\A c \in Calls :
             (calls[c].pc \in {"insVisitor", "updVisitor"} /\ calls'[c].pc = "selStats")
             => LET Key(r) == /\ r.site_origin = calls[c].siteOrigin
                              /\ r.visitor_hash = calls[c].visitorHash
                IN  /\ {r \in visitors' : ~Key(r)} = {r \in visitors : ~Key(r)}
                    /\ Cardinality({r \in visitors' : Key(r)}) = 1
                    /\ \A r2 \in visitors' :
                          Key(r2) => IF \E r \in visitors : Key(r)
                                        THEN \E r \in visitors :
                                                /\ Key(r)
                                                /\ r2.visit_count = r.visit_count + 1
                                        ELSE r2.visit_count = 1]_vars
    /\ [](Quiescent =>
             \A r \in visitors :
                r.visit_count
                   = Cardinality(SucceededWith(r.site_origin, r.visitor_hash)))

C27_ReadOnlyRoutes ==
    [][\A c \in Calls :
          (calls'[c] # calls[c] /\ ~IsTrack(calls'[c].request))
          => /\ visitors' = visitors
             /\ site_stats' = site_stats]_vars

\* a request to a static route answered on a store that holds rows
C27_Witness ==
    /\ visitors # {}
    /\ site_stats # {}
    /\ \E c \in Calls :
          /\ calls[c].pc = "responded"
          /\ ~IsTrack(calls[c].request)
          /\ calls[c].request.path \in {"/track.js", "/track", "/"}

\* C28 (SpecNorm). The site origin getSiteOrigin returns for a referrer that
\* parses never ends with "/".
C28_NoTrailingSlash ==
    (normOut # <<>> /\ normOut[1] # Null)
    => normOut[1][Len(normOut[1])] # "/"

\* C29 (SpecNorm). getSiteOrigin is idempotent: applied to a site origin it
\* returned, it returns that site origin again.
C29_Idempotent ==
    (normOut # <<>> /\ normOut[1] # Null)
    => getSiteOrigin(normOut[1]) = normOut[1]

\* C30 (SpecHttp), as stated. The referrer of a POST /track is the body's
\* referrer when the body parses and the field is non-empty, otherwise the
\* Referer header, otherwise the Referrer header; and the request is answered
\* 400 only when none of the three is non-empty.
C30_ReferrerSelection ==
    \A c \in Calls :
        LET q == calls[c].request
            selected == IF q.json /\ q.bodyReferrer # <<>> THEN q.bodyReferrer
                        ELSE IF q.referer # <<>> THEN q.referer
                        ELSE q.referrerHdr
        IN  IsTrack(q)
            => /\ calls[c].siteOrigin # Null
                  => calls[c].siteOrigin = getSiteOrigin(selected)
               /\ calls[c].status = 400 => selected = <<>>

\* C30 (SpecHttp), amended. The referrer is selected in that order; a body that
\* is absent or fails to parse causes no error by itself; and the request is
\* answered 400 exactly when the selected referrer is empty ("No referrer
\* provided") or does not parse as a URL ("Invalid referrer").
C30_ReferrerSelectionAmended ==
    \A c \in Calls :
        LET q == calls[c].request
            selected == IF q.json /\ q.bodyReferrer # <<>> THEN q.bodyReferrer
                        ELSE IF q.referer # <<>> THEN q.referer
                        ELSE q.referrerHdr
        IN  IsTrack(q)
            => /\ calls[c].siteOrigin # Null
                  => calls[c].siteOrigin = getSiteOrigin(selected)
               /\ selected = <<>>
                  => calls[c].status = 400 /\ calls[c].error = "No referrer provided"
               /\ (selected # <<>> /\ ~UrlParses(selected))
                  => calls[c].status = 400 /\ calls[c].error = "Invalid referrer"
               /\ (selected # <<>> /\ UrlParses(selected))
                  => /\ calls[c].status # 400
                     /\ calls[c].siteOrigin = getSiteOrigin(selected)
                     /\ calls[c].status = 500 => calls[c].thrown # ""

\* a body that did not parse with the header used instead, next to a request
\* answered 400 although a referrer was given
C30_Witness ==
    /\ \E c \in Calls : /\ IsTrack(calls[c].request)
                        /\ ~calls[c].request.json
                        /\ calls[c].status = 200
    /\ \E c \in Calls : /\ IsTrack(calls[c].request)
                        /\ calls[c].status = 400
                        /\ calls[c].error = "Invalid referrer"

====
